---- MODULE Spec2Model ----
(***************************************************************************)
(* Model of ctp::CTPHelper (dunereco/TrackPID/CTPHelper.cxx): the feature  *)
(* extraction for the convolutional track PID.                             *)
(*                                                                         *)
(* A CTPHelper is constructed once (the configuration members are fixed by *)
(* the constructor) and every member function is const: a call reads the   *)
(* configuration and its arguments and returns.  The state is therefore    *)
(* the configuration, the call that was made and what it produced.         *)
(*                                                                         *)
(* Numbers.  dE/dx values are floats in the code.  The model keeps them as *)
(* integers that are multiples of 256, so that the sums, differences and   *)
(* the halvings of SmoothDedxVector are exact (as they are in float for    *)
(* these magnitudes).  A mean or standard deviation is kept as the exact   *)
(* fraction [num, den, sqrt]: num/den, or its square root when sqrt holds; *)
(* den = 0 is the 0/0 the code computes on an empty vector (NaN).          *)
(* A value of type unsigned int is kept as its two's complement reading:   *)
(* a negative integer -k stands for 2^32 - k, and ULess compares two such  *)
(* values the way the unsigned comparison does.                            *)
(***************************************************************************)
EXTENDS Integers, Sequences, FiniteSets, TLC

VARIABLES fMinTrackPoints, fDedxLength, call, result

vars == <<fMinTrackPoints, fDedxLength, call, result>>

(***************************************************************************)
(* Bounds of the model.                                                    *)
(***************************************************************************)
MaxMinPoints == 4
MaxDedxLength == 12
MaxLen == 6
MaxSmoothLen == 5
MaxChildren == 2
MaxPad == 2

(***************************************************************************)
(* Configuration defaults of the constructor.                              *)
(***************************************************************************)
fQMax == 1000
fQJump == 500

(***************************************************************************)
(* Input values.                                                           *)
(***************************************************************************)
SeqsOf(S, lo, hi) == UNION {[1..n -> S] : n \in lo..hi}

\* dE/dx samples of the tracks handed to GetNetworkInputs
DedxValues == {0, 768}
\* dE/dx samples handed to SmoothDedxVector alone: a negative one, one above
\* fQMax, and two that differ by more than fQJump
SmoothValues == {-256, 0, 768, 2048}
\* what std::normal_distribution can return
GaussValues == {-256, 0, 256}

\* the direction at a trajectory point, as a heading in degrees in one plane
Trajectories == {<<0, 0, 0>>, <<0, 10, 0, 30>>}

ChildKinds ==
  { [isTrack |-> TRUE,  isShower |-> FALSE, NumDaughters |-> 0],
    [isTrack |-> FALSE, isShower |-> TRUE,  NumDaughters |-> 2],
    [isTrack |-> FALSE, isShower |-> FALSE, NumDaughters |-> 1] }

\* what the words in front of a vector's buffer may hold when they are read
StaleValues == {-256, 0}

\* the scores the network returns for one input
Scores == {<<1, 0, 0>>, <<0, 1, 0>>}

(***************************************************************************)
(* A PFParticle together with what the event holds for it: whether a track *)
(* or a shower is associated, the dE/dx of the track's calorimetry, the    *)
(* track's trajectory and the particle's children.                         *)
(***************************************************************************)
Particle(trk, shw, dedx, traj, children) ==
  [isTrack |-> trk, isShower |-> shw, dEdx |-> dedx, traj |-> traj,
   children |-> children]

\* the particles handed to GetNetworkInputs and its callers: tracks of
\* 2 to MaxLen points, and showers, which have no track
TrackParticles ==
  { Particle(TRUE, FALSE, dedx, traj, children) :
      dedx \in SeqsOf(DedxValues, 2, MaxLen),
      traj \in Trajectories,
      children \in SeqsOf(ChildKinds, 0, 1) }

ShowerParticles ==
  { Particle(FALSE, TRUE, <<>>, <<>>, children) :
      children \in SeqsOf(ChildKinds, 0, 1) }

NetParticles == TrackParticles \cup ShowerParticles

\* the particles handed to GetChildParticles alone
TopoParticles ==
  { Particle(k[1], k[2], <<>>, <<>>, children) :
      k \in {<<TRUE, FALSE>>, <<FALSE, TRUE>>, <<FALSE, FALSE>>},
      children \in SeqsOf(ChildKinds, 0, MaxChildren) }


IsTrack(part) == part.isTrack

IsShower(part) == part.isShower

GetTrack(part) == [dEdx |-> part.dEdx, traj |-> part.traj]

GetCalorimetry(track) == track.dEdx

GetChildren(part) == part.children

(***************************************************************************)
(* unsigned int                                                            *)
(***************************************************************************)
\* a < b for two unsigned values held as their two's complement reading
ULess(a, b) ==
  IF (a < 0) = (b < 0) THEN a < b ELSE b < 0

\* vector::at(e): the index is in range
InRange(dedx, e) == ULess(e, Len(dedx))

(***************************************************************************)
(* float                                                                   *)
(***************************************************************************)
Float(n) == [num |-> n, den |-> 1, sqrt |-> FALSE]

Div(a, n) == [num |-> a, den |-> n, sqrt |-> FALSE]

Sqrt(q) == [num |-> q.num, den |-> q.den, sqrt |-> TRUE]

IsNaN(x) == x.den = 0

\* the mean and sigma handed to PadDedxVector alone
PadMeans == {Float(-256), Float(256)}

PadSigmas == {Sqrt(Float(0)), Sqrt(Float(65536))}

RECURSIVE SumSeq(_)
SumSeq(s) == IF s = <<>> THEN 0 ELSE Head(s) + SumSeq(Tail(s))

(***************************************************************************)
(* CTPHelper::SmoothDedxVector                                             *)
(***************************************************************************)
\* for(float val : dedx){ if(val > fQMax) val = fQMax; if(val < 0.) val = 0.; }
\* val is a copy of the element: the two assignments change the copy, and the
\* element keeps its value.
ClampVal(val) ==
  LET val1 == IF val > fQMax THEN fQMax ELSE val
  IN  IF val1 < 0 THEN 0 ELSE val1

ClampLoop(dedx) ==
  [i \in DOMAIN dedx |-> LET val == ClampVal(dedx[i]) IN dedx[i]]

\* if((dedx[0] - dedx[1]) > fQJump) dedx[0] = dedx[1] + (dedx[1] - dedx[2]);
SmoothFirst(dedx) ==
  IF dedx[1] - dedx[2] > fQJump
  THEN [dedx EXCEPT ![1] = dedx[2] + (dedx[2] - dedx[3])]
  ELSE dedx

\* if((dedx[nQ-1] - dedx[nQ-2]) > fQJump) dedx[nQ-1] = dedx[nQ-2] + (dedx[nQ-2] - dedx[nQ-3]);
SmoothLast(dedx) ==
  LET nQ == Len(dedx)
  IN  IF dedx[nQ] - dedx[nQ - 1] > fQJump
      THEN [dedx EXCEPT ![nQ] = dedx[nQ - 1] + (dedx[nQ - 1] - dedx[nQ - 2])]
      ELSE dedx

\* SmoothRest as it would be if a jump in either direction were smoothed
RECURSIVE SmoothRestEitherWay(_, _)
SmoothRestEitherWay(dedx, q) ==
  IF ~(q < Len(dedx) - 1) THEN dedx
  ELSE SmoothRestEitherWay(
         IF dedx[q + 1] - dedx[q] > fQJump \/ dedx[q] - dedx[q + 1] > fQJump
         THEN [dedx EXCEPT ![q + 1] = (dedx[q] + dedx[q + 2]) \div 2]
         ELSE dedx,
         q + 1)

\* for(unsigned int q = 1; q < nQ - 1; ++q)
\*   if((dedx[q] - dedx[q-1]) > fQJump) dedx[q] = 0.5 * (dedx[q-1]+dedx[q+1]);
\* q is the index of the code; the element is dedx[q + 1] here.
RECURSIVE SmoothRest(_, _)
SmoothRest(dedx, q) ==
  IF ~(q < Len(dedx) - 1) THEN dedx
  ELSE SmoothRest(
         IF dedx[q + 1] - dedx[q] > fQJump
         THEN [dedx EXCEPT ![q + 1] = (dedx[q] + dedx[q + 2]) \div 2]
         ELSE dedx,
         q + 1)

SmoothDedxVector(dedx) ==
  SmoothRest(SmoothLast(SmoothFirst(ClampLoop(dedx))), 1)

(***************************************************************************)
(* CTPHelper::GetDedxMeanAndSigma                                          *)
(***************************************************************************)
\* mean = averageDedx / size; sigmaDedx = sum of (mean - q)^2, which is
\* (sum of (averageDedx - size*q)^2) / size^2; sigma = sqrt(sigmaDedx / size)
GetDedxMeanAndSigma(dedx) ==
  LET size == Len(dedx)
      averageDedx == SumSeq(dedx)
      sigmaDedx == SumSeq([i \in DOMAIN dedx |->
                      (averageDedx - size * dedx[i]) * (averageDedx - size * dedx[i])])
  IN  [mean |-> Div(averageDedx, size),
       sigma |-> Sqrt(Div(sigmaDedx, size * size * size))]

(***************************************************************************)
(* CTPHelper::GetDeflectionMeanAndSigma                                    *)
(***************************************************************************)
\* TVector3::Angle of two directions of one plane
Angle(thisDir, prevDir) ==
  IF thisDir >= prevDir THEN thisDir - prevDir ELSE prevDir - thisDir

GetDeflectionMeanAndSigma(track) ==
  LET NPoints == Len(track.traj)
      trajAngle == [p \in 1..(IF NPoints > 0 THEN NPoints - 1 ELSE 0) |->
                      Angle(track.traj[p + 1], track.traj[p])]
      size == Len(trajAngle)
      averageAngle == SumSeq(trajAngle)
      standardDevAngle == SumSeq([i \in DOMAIN trajAngle |->
                      (averageAngle - size * trajAngle[i]) * (averageAngle - size * trajAngle[i])])
  IN  [mean |-> Div(averageAngle, size),
       sigma |-> Sqrt(Div(standardDevAngle, size * size * size))]

(***************************************************************************)
(* CTPHelper::GetChildParticles                                            *)
(***************************************************************************)
BoolToUInt(b) == IF b THEN 1 ELSE 0

\* the body of the loop over the children: IsTrack and IsShower are asked
\* of part, the parent, and NumDaughters of the child
RECURSIVE ChildLoop(_, _, _)
ChildLoop(part, children, n) ==
  IF children = <<>> THEN n
  ELSE LET child == Head(children)
       IN  ChildLoop(part, Tail(children),
             [nTrack  |-> n.nTrack + BoolToUInt(IsTrack(part)),
              nShower |-> n.nShower + BoolToUInt(IsShower(part)),
              nGrand  |-> n.nGrand + child.NumDaughters])

GetChildParticles(part) ==
  ChildLoop(part, GetChildren(part), [nTrack |-> 0, nShower |-> 0, nGrand |-> 0])

(***************************************************************************)
(* CTPHelper::PadDedxVector                                                *)
(***************************************************************************)
\* gaussDist(generator): with sigma = 0 the distribution returns its mean
GaussDist(mean, sigma) ==
  IF sigma.num = 0 THEN {mean.num \div mean.den} ELSE GaussValues

\* Accepted as it would be if the do-while ended on the first value drawn
AcceptedAnyDraw(randVal) == TRUE

\* do { randVal = gaussDist(generator); } while (randVal < 0);
\* the value the loop ends with
Accepted(randVal) == ~(randVal < 0)

\* the values the do-while loops of one call end with, first drawn first:
\* one for each h with h + originalSize < fDedxLength
PadDraws(originalSize, mean, sigma) ==
  LET nPad == IF originalSize < fDedxLength THEN fDedxLength - originalSize ELSE 0
  IN  [1..nPad -> {v \in GaussDist(mean, sigma) : Accepted(v)}]

\* dedx.insert(dedx.begin(), randVal) for each value drawn: the value drawn
\* last ends in front
RECURSIVE PadDedxVector(_, _)
PadDedxVector(dedx, draws) ==
  IF draws = <<>> THEN dedx
  ELSE PadDedxVector(<<Head(draws)>> \o dedx, Tail(draws))

(***************************************************************************)
(* CTPHelper::GetNetworkInputs                                             *)
(***************************************************************************)
\* WindowLoop as it would be if the loop ran while e >= avEnd
RECURSIVE WindowLoopToEnd(_, _, _, _)
WindowLoopToEnd(dedxVector, e, avEnd, window) ==
  IF ULess(e, avEnd) THEN [threw |-> FALSE, window |-> window]
  ELSE IF ~InRange(dedxVector, e) THEN [threw |-> TRUE, window |-> window]
  ELSE WindowLoopToEnd(dedxVector, e - 1, avEnd, Append(window, e))

\* for(unsigned int e = avStart; e > avEnd; --e) dedxTrunc.push_back(dedxVector.at(e));
\* window is the sequence of the indices read so far; at(e) throws
\* std::out_of_range when e is not an index of dedxVector
RECURSIVE WindowLoop(_, _, _, _)
WindowLoop(dedxVector, e, avEnd, window) ==
  IF ~ULess(avEnd, e) THEN [threw |-> FALSE, window |-> window]
  ELSE IF ~InRange(dedxVector, e) THEN [threw |-> TRUE, window |-> window]
  ELSE WindowLoop(dedxVector, e - 1, avEnd, Append(window, e))

\* finalInputDedx.insert(finalInputDedx.begin(), dedxVector.end() - fDedxLength, dedxVector.end());
\* With fewer than fDedxLength elements the first iterator lies in front of
\* the buffer and the behaviour is undefined: the copy reads what is stored
\* there, or the process is stopped.
FinalInputDedx(dedxVector) ==
  LET size == Len(dedxVector)
  IN  IF size >= fDedxLength
      THEN {[crashed |-> FALSE,
             dedx |-> SubSeq(dedxVector, size - fDedxLength + 1, size)]}
      ELSE {[crashed |-> TRUE, dedx |-> <<>>]}
           \cup {[crashed |-> FALSE,
                  dedx |-> [i \in 1..(fDedxLength - size) |-> g] \o dedxVector] :
                 g \in StaleValues}

\* FinalInputVariables as it would be if the mean and sigma of the dE/dx
\* were pushed in the other order
FinalInputVariablesSwapped(nTrack, nShower, nGrand, dedxMean, dedxSigma, deflectionMean, deflectionSigma) ==
  <<Float(nTrack), Float(nShower), Float(nGrand), dedxSigma, dedxMean,
    deflectionMean, deflectionSigma>>

\* the push_backs onto finalInputVariables, in their order
FinalInputVariables(nTrack, nShower, nGrand, dedxMean, dedxSigma, deflectionMean, deflectionSigma) ==
  <<Float(nTrack), Float(nShower), Float(nGrand), dedxMean, dedxSigma,
    deflectionMean, deflectionSigma>>

\* What one call produces: how it ended, the vectors returned, the member
\* functions it called in order, the indices of the window read and the
\* number of values PadDedxVector put in front.
Outcome(status, netInputs, calls, window, nPadded) ==
  [status |-> status, netInputs |-> netInputs, calls |-> calls,
   window |-> window, nPadded |-> nPadded]

\* the part of GetNetworkInputs after the window has been read
Assemble(part, thisTrack, dedxVector, window) ==
  LET dedxTrunc == [i \in DOMAIN window |-> dedxVector[window[i] + 1]]
      stats == GetDedxMeanAndSigma(dedxTrunc)
      pad == Len(dedxVector) < fMinTrackPoints
      padded == IF pad
                THEN {PadDedxVector(dedxVector, d) :
                        d \in PadDraws(Len(dedxVector), stats.mean, stats.sigma)}
                ELSE {dedxVector}
      calls0 == <<"SmoothDedxVector", "GetDedxMeanAndSigma">>
                  \o (IF pad THEN <<"PadDedxVector">> ELSE <<>>)
      n == GetChildParticles(part)
      deflection == GetDeflectionMeanAndSigma(thisTrack)
      finalInputVariables ==
        FinalInputVariables(n.nTrack, n.nShower, n.nGrand, stats.mean,
                            stats.sigma, deflection.mean, deflection.sigma)
  IN  UNION {
        { IF f.crashed
          THEN Outcome("crashed", <<>>, calls0, window, Len(p) - Len(dedxVector))
          ELSE Outcome("returned", <<f.dedx, finalInputVariables>>,
                       calls0 \o <<"GetChildParticles", "GetDeflectionMeanAndSigma">>,
                       window, Len(p) - Len(dedxVector))
          : f \in FinalInputDedx(p) }
        : p \in padded }

GetNetworkInputs(part) ==
  IF ~IsTrack(part) THEN {Outcome("returned", <<>>, <<>>, <<>>, 0)}
  ELSE
    LET thisTrack == GetTrack(part)
        thisCalo == GetCalorimetry(thisTrack)
    IN  IF Len(thisCalo) < fMinTrackPoints
        THEN {Outcome("returned", <<>>, <<>>, <<>>, 0)}
        ELSE
          LET dedxVector == SmoothDedxVector(thisCalo)
              pointsForAverage == (fDedxLength - fMinTrackPoints) \div 3
              avStart == Len(dedxVector) - 1 - pointsForAverage
              avEnd == Len(dedxVector) - 1 - (2 * pointsForAverage)
              loop == WindowLoop(dedxVector, avStart, avEnd, <<>>)
          IN  IF loop.threw
              THEN {Outcome("threw", <<>>, <<"SmoothDedxVector">>, loop.window, 0)}
              ELSE Assemble(part, thisTrack, dedxVector, loop.window)

(***************************************************************************)
(* The inference engine, tf::CTPGraph: one vector of scores for each input *)
(***************************************************************************)
ConvNetRun(finalInputs) ==
  {[i \in DOMAIN finalInputs |-> <<sc>>] : sc \in Scores}

(***************************************************************************)
(* The state machine                                                       *)
(***************************************************************************)
\* CTPHelper::CTPHelper: MinHits and DedxLength are read from the parameter
\* set; the configurations are those with DedxLength >= MinHits >= 3
Init ==
  /\ fMinTrackPoints \in 3..MaxMinPoints
  /\ fDedxLength \in fMinTrackPoints..MaxDedxLength
  /\ call = [op |-> "none"]
  /\ result = [status |-> "none"]

Idle == call.op = "none"

CallGetNetworkInputs ==
  /\ Idle
  /\ \E part \in NetParticles :
       \E out \in GetNetworkInputs(part) :
         /\ call' = [op |-> "GetNetworkInputs", part |-> part]
         /\ result' = out
  /\ UNCHANGED <<fMinTrackPoints, fDedxLength>>

\* twoVecs goes into finalInputs as it is, convNet->run(finalInputs) is
\* called and the result is made of convNetOutput.at(0).at(0)
RunConvolutionalTrackPID ==
  /\ Idle
  /\ \E part \in NetParticles :
       \E out \in GetNetworkInputs(part) :
         /\ call' = [op |-> "RunConvolutionalTrackPID", part |-> part]
         /\ IF out.status # "returned"
            THEN result' = [status |-> out.status, value |-> <<>>,
                            finalInputs |-> <<>>, engineRuns |-> 0]
            ELSE LET twoVecs == out.netInputs
                     finalInputs == <<twoVecs>>
                 IN  \E convNetOutput \in ConvNetRun(finalInputs) :
                       result' = [status |-> "returned",
                                  value |-> convNetOutput[1][1],
                                  finalInputs |-> finalInputs,
                                  engineRuns |-> 1]
  /\ UNCHANGED <<fMinTrackPoints, fDedxLength>>

\* vector::at(n) of the vector GetNetworkInputs returned: throws
\* std::out_of_range when the vector has no element n
NetInputsAt(out, n) ==
  IF out.status # "returned" THEN [status |-> out.status, value |-> <<>>]
  ELSE IF n < Len(out.netInputs)
       THEN [status |-> "returned", value |-> out.netInputs[n + 1]]
       ELSE [status |-> "threw", value |-> <<>>]

GetDeDxVector ==
  /\ Idle
  /\ \E part \in NetParticles :
       \E out \in GetNetworkInputs(part) :
         /\ call' = [op |-> "GetDeDxVector", part |-> part]
         /\ result' = NetInputsAt(out, 0)
  /\ UNCHANGED <<fMinTrackPoints, fDedxLength>>

GetVariableVector ==
  /\ Idle
  /\ \E part \in NetParticles :
       \E out \in GetNetworkInputs(part) :
         /\ call' = [op |-> "GetVariableVector", part |-> part]
         /\ result' = NetInputsAt(out, 1)
  /\ UNCHANGED <<fMinTrackPoints, fDedxLength>>

\* SmoothDedxVector on a vector of at least three values; clamped is the
\* vector when the first loop has ended
CallSmoothDedxVector ==
  /\ Idle
  /\ \E dedx \in SeqsOf(SmoothValues, 3, MaxSmoothLen) :
       /\ call' = [op |-> "SmoothDedxVector", dedx |-> dedx]
       /\ result' = [status |-> "returned", clamped |-> ClampLoop(dedx),
                     dedx |-> SmoothDedxVector(dedx)]
  /\ UNCHANGED <<fMinTrackPoints, fDedxLength>>

\* PadDedxVector on a vector that lacks at most MaxPad values; a call whose
\* do-while never draws an accepted value does not return
CallPadDedxVector ==
  /\ Idle
  /\ \E dedx \in SeqsOf(DedxValues, 0, MaxLen), mean \in PadMeans, sigma \in PadSigmas :
       /\ fDedxLength - Len(dedx) <= MaxPad
       /\ \E draws \in PadDraws(Len(dedx), mean, sigma) :
            /\ call' = [op |-> "PadDedxVector", dedx |-> dedx, mean |-> mean,
                        sigma |-> sigma]
            /\ result' = [status |-> "returned",
                          dedx |-> PadDedxVector(dedx, draws)]
  /\ UNCHANGED <<fMinTrackPoints, fDedxLength>>

CallGetChildParticles ==
  /\ Idle
  /\ \E part \in TopoParticles :
       /\ call' = [op |-> "GetChildParticles", part |-> part]
       /\ result' = [status |-> "returned", n |-> GetChildParticles(part)]
  /\ UNCHANGED <<fMinTrackPoints, fDedxLength>>

Next ==
  \/ CallGetNetworkInputs
  \/ RunConvolutionalTrackPID
  \/ GetDeDxVector
  \/ GetVariableVector
  \/ CallSmoothDedxVector
  \/ CallPadDedxVector
  \/ CallGetChildParticles

Spec == Init /\ [][Next]_vars

(***************************************************************************)
(* Properties                                                              *)
(***************************************************************************)
\* the object is rejected: not track-like, or fewer than fMinTrackPoints samples
Rejected(part) == ~part.isTrack \/ Len(part.dEdx) < fMinTrackPoints

AfterGetNetworkInputs == call.op = "GetNetworkInputs"

AcceptedCall == AfterGetNetworkInputs /\ ~Rejected(call.part)

\* C1: GetNetworkInputs returns the empty result, having called none of the
\* other member functions, when the object is rejected, and returns exactly
\* two vectors in every other case.
C1_EmptyOrTwoVectors ==
  AfterGetNetworkInputs =>
    IF Rejected(call.part)
    THEN /\ result.status = "returned"
         /\ result.netInputs = <<>>
         /\ result.calls = <<>>
    ELSE /\ result.status = "returned"
         /\ Len(result.netInputs) = 2

\* C2: for an accepted sequence of length L the sample vector has exactly
\* fDedxLength elements: for L < fDedxLength the fDedxLength - L values of
\* PadDedxVector (none negative) followed by the L cleaned values, and for
\* L >= fDedxLength the last fDedxLength cleaned values.
C2_SampleVectorHasTargetLength ==
  (AcceptedCall /\ fDedxLength >= fMinTrackPoints) =>
    /\ result.status = "returned"
    /\ Len(result.netInputs) = 2
    /\ LET sample == result.netInputs[1]
           cleaned == SmoothDedxVector(call.part.dEdx)
           L == Len(cleaned)
       IN  /\ Len(sample) = fDedxLength
           /\ IF L < fDedxLength
              THEN /\ result.nPadded = fDedxLength - L
                   /\ \A i \in 1..(fDedxLength - L) : sample[i] >= 0
                   /\ SubSeq(sample, fDedxLength - L + 1, fDedxLength) = cleaned
              ELSE sample = SubSeq(cleaned, L - fDedxLength + 1, L)

\* C3: when the first loop of SmoothDedxVector has ended, every value that
\* was above fQMax is fQMax and every value that was negative is 0.
C3_ClampedBeforeSmoothing ==
  call.op = "SmoothDedxVector" =>
    \A i \in DOMAIN call.dedx :
      /\ call.dedx[i] > fQMax => result.clamped[i] = fQMax
      /\ call.dedx[i] < 0 => result.clamped[i] = 0

\* C4: a non-empty result's second vector has exactly 7 elements, in the
\* order nTrack, nShower, nGrand of GetChildParticles, mean and sigma of the
\* window of the cleaned, unpadded dE/dx, mean and sigma of the deflection.
C4_SevenScalarsInOrder ==
  (AfterGetNetworkInputs /\ result.status = "returned" /\ result.netInputs # <<>>) =>
    LET v == result.netInputs[2]
        cleaned == SmoothDedxVector(call.part.dEdx)
        window == [i \in DOMAIN result.window |-> cleaned[result.window[i] + 1]]
        stats == GetDedxMeanAndSigma(window)
        n == GetChildParticles(call.part)
        deflection == GetDeflectionMeanAndSigma(GetTrack(call.part))
    IN  /\ Len(v) = 7
        /\ v[1] = Float(n.nTrack)
        /\ v[2] = Float(n.nShower)
        /\ v[3] = Float(n.nGrand)
        /\ v[4] = stats.mean
        /\ v[5] = stats.sigma
        /\ v[6] = deflection.mean
        /\ v[7] = deflection.sigma

C4_Witness ==
  /\ AfterGetNetworkInputs
  /\ result.status = "returned"
  /\ Len(result.netInputs) = 2
  /\ call.part.children # <<>>
  /\ Len(result.window) >= 2
  /\ SmoothDedxVector(call.part.dEdx) # call.part.dEdx
  /\ ~IsNaN(result.netInputs[2][4])
  /\ result.netInputs[2][5].num > 0

\* C5: GetChildParticles returns the number of track-like direct children,
\* the number of shower-like direct children and the sum of the children's
\* own child counts; (0,0,0) for no children.
C5_CountsTheChildren ==
  call.op = "GetChildParticles" =>
    LET children == call.part.children
    IN  /\ result.n.nTrack = Cardinality({i \in DOMAIN children : children[i].isTrack})
        /\ result.n.nShower = Cardinality({i \in DOMAIN children : children[i].isShower})
        /\ result.n.nGrand = SumSeq([i \in DOMAIN children |-> children[i].NumDaughters])
        /\ children = <<>> => result.n = [nTrack |-> 0, nShower |-> 0, nGrand |-> 0]

\* C6: on a rejected object no caller of GetNetworkInputs indexes the empty
\* result (std::out_of_range) or runs the network on it.
C6_CallersCheckForEmpty ==
  (/\ call.op \in {"RunConvolutionalTrackPID", "GetDeDxVector", "GetVariableVector"}
   /\ Rejected(call.part)) =>
    /\ result.status # "threw"
    /\ call.op = "RunConvolutionalTrackPID" => result.engineRuns = 0

\* C7: with fDedxLength >= fMinTrackPoints the window of an accepted
\* sequence is well defined: neither bound wraps around below zero, every
\* index read is an index of the vector, and the window is not empty.
C7_WindowWellDefined ==
  (AcceptedCall /\ fDedxLength >= fMinTrackPoints) =>
    LET size == Len(call.part.dEdx)
        pointsForAverage == (fDedxLength - fMinTrackPoints) \div 3
    IN  /\ size - 1 - pointsForAverage >= 0
        /\ size - 1 - 2 * pointsForAverage >= 0
        /\ result.status # "threw"
        /\ \A i \in DOMAIN result.window :
             result.window[i] >= 0 /\ result.window[i] < size
        /\ result.window # <<>>

\* the indices the window statistics of the call were computed over
WindowIndices == {result.window[i] : i \in DOMAIN result.window}

\* C8, as claimed: the indices are those of [size-1-2*pointsForAverage,
\* size-1-pointsForAverage), the lower bound included and the upper excluded.
C8_WindowLowerIncluded ==
  AcceptedCall =>
    LET size == Len(call.part.dEdx)
        pointsForAverage == (fDedxLength - fMinTrackPoints) \div 3
    IN  WindowIndices =
          {e \in 0..(size - 1) : /\ size - 1 - 2 * pointsForAverage <= e
                                 /\ e < size - 1 - pointsForAverage}

\* C8, amended: whenever the window statistics are computed, the indices
\* are those of (size-1-2*pointsForAverage, size-1-pointsForAverage], the
\* lower bound excluded and the upper included, both bounds being unsigned
\* values (no index at all when the lower bound wraps around).
C8_WindowUpperIncluded ==
  (AcceptedCall /\ result.status # "threw") =>
    LET size == Len(call.part.dEdx)
        pointsForAverage == (fDedxLength - fMinTrackPoints) \div 3
        lower == size - 1 - 2 * pointsForAverage
        upper == size - 1 - pointsForAverage
    IN  WindowIndices =
          {e \in 0..(size - 1) : ULess(lower, e) /\ ~ULess(upper, e)}

C8_Witness ==
  /\ AcceptedCall
  /\ result.status = "returned"
  /\ Len(result.window) >= 2
  /\ Len(call.part.dEdx) > fMinTrackPoints

\* C9: SmoothDedxVector keeps the length; the first element, then the last,
\* then the elements 1..n-2 in ascending order are smoothed in place: an
\* interior element becomes the average of its two neighbours as they are
\* when it is processed if it exceeds its predecessor by more than fQJump,
\* and keeps its value otherwise, also when it lies more than fQJump below.
C9_SmoothingOrder ==
  call.op = "SmoothDedxVector" =>
    LET in == result.clamped
        out == result.dedx
        n == Len(in)
        first == IF in[1] - in[2] > fQJump THEN in[2] + (in[2] - in[3]) ELSE in[1]
        third == IF n = 3 THEN first ELSE in[n - 2]
        last == IF in[n] - in[n - 1] > fQJump
                THEN in[n - 1] + (in[n - 1] - third) ELSE in[n]
    IN  /\ Len(out) = n
        /\ out[1] = first
        /\ out[n] = last
        /\ \A i \in 2..(n - 1) :
             LET prev == out[i - 1]
                 next == IF i + 1 = n THEN last ELSE in[i + 1]
             IN  /\ in[i] - prev > fQJump => 2 * out[i] = prev + next
                 /\ ~(in[i] - prev > fQJump) => out[i] = in[i]
                 /\ prev - in[i] > fQJump => out[i] = in[i]

C9_Witness ==
  /\ call.op = "SmoothDedxVector"
  /\ \E i \in 2..(Len(call.dedx) - 1) :
       /\ result.dedx[i] # call.dedx[i]
       /\ result.dedx[i - 1] # call.dedx[i - 1]
       /\ i > 2
  /\ \E j \in 2..(Len(call.dedx) - 1) :
       result.dedx[j - 1] - call.dedx[j] > fQJump

\* C10: PadDedxVector on n values returns max(n, fDedxLength) values, the
\* last n of them the original values in their order and the others >= 0;
\* with n >= fDedxLength the vector is unchanged.
C10_PadInFront ==
  call.op = "PadDedxVector" =>
    LET n == Len(call.dedx)
        out == result.dedx
    IN  /\ Len(out) = IF n > fDedxLength THEN n ELSE fDedxLength
        /\ SubSeq(out, Len(out) - n + 1, Len(out)) = call.dedx
        /\ \A i \in 1..(Len(out) - n) : out[i] >= 0
        /\ n >= fDedxLength => out = call.dedx

C10_Witness ==
  /\ call.op = "PadDedxVector"
  /\ Len(call.dedx) > 1
  /\ call.dedx[1] # call.dedx[2]
  /\ Len(result.dedx) = Len(call.dedx) + 2
  /\ result.dedx[1] # result.dedx[2]

====
